---- MODULE Spec2Model ----
(***************************************************************************)
(* Model of the analysis scripts of epochai-python (src/examples):         *)
(*   missing_combos.py            get_missing_combinations,                *)
(*                                print_missing_combinations               *)
(*   airtable.py                  print_high_scores,                       *)
(*                                print_performance_timeline               *)
(*   reasoning_models_analysis.py print_model_comparison                   *)
(*                                                                         *)
(* Representation.                                                         *)
(*  - A Python str is a sequence of code points, so that str.lower(), the  *)
(*    substring test `in` and the ordering used by sorted() are computed.  *)
(*  - An optional value (None or a value) is a sequence of length <= 1:    *)
(*    None is <<>>, a present value v is <<v>>.                            *)
(*  - A release date is a day number; a float mean or stderr is an integer *)
(*    number of ten-thousandths (0.5 is 5000).                             *)
(*  - The tables fetched from Airtable (models, tasks, runs, scores) are a *)
(*    snapshot: a run's model and task, and a score's run, are records of  *)
(*    the fetched tables (linked records), and model_id and path are keys. *)
(***************************************************************************)
EXTENDS Integers, Sequences, FiniteSets, TLC

VARIABLES
    models,                 \* MLModel.all(): set of model records
    tasks,                  \* Task.all(): sequence of task records
    runs,                   \* BenchmarkRun.all(): sequence of run records
    scores,                 \* Score.all(): sequence of score records
    pc,                     \* position of the running script
    call,                   \* the arguments of the operation that ran
    missing_combinations,   \* missing_combos.py: result of get_missing_combinations
    locals,                 \* the local variables of the operation when it ended
    console                 \* what the operation handed to console.print, in order

vars == <<models, tasks, runs, scores, pc, call, missing_combinations, locals, console>>

None == <<>>
Some(v) == <<v>>

(***************************************************************************)
(* Bounds of the model.                                                    *)
(***************************************************************************)
MaxRuns == 2
MaxTimelineScores == 4
MaxRankScores == 11
MaxMatrixScores == 3

(***************************************************************************)
(* Python str and sorted().                                                *)
(***************************************************************************)
RECURSIVE SortedStrs(_)
RECURSIVE SortedPairs(_)

\* chr.lower() for one code point: 'A'..'Z' (65..90) map to 'a'..'z'
LowerChar(c) == IF c >= 65 /\ c <= 90 THEN c + 32 ELSE c

\* str.lower()
Lower(s) == [i \in 1..Len(s) |-> LowerChar(s[i])]

\* Python's `sub in s` for str
StrIn(sub, s) ==
    \E i \in 0..(Len(s) - Len(sub)) : SubSeq(s, i + 1, i + Len(sub)) = sub

\* Python's < on str and on tuples: lexicographic, a proper prefix is smaller
StrLess(a, b) ==
    \E k \in 1..(Len(b)) :
        /\ k <= Len(a) + 1
        /\ \A j \in 1..(k - 1) : a[j] = b[j]
        /\ IF k = Len(a) + 1 THEN TRUE ELSE a[k] < b[k]

\* < on (str, str) tuples
PairLess(p, q) == StrLess(p[1], q[1]) \/ (p[1] = q[1] /\ StrLess(p[2], q[2]))

\* sorted(S) for a collection S of distinct str
SortedStrs(S) ==
    IF S = {} THEN <<>>
    ELSE LET m == CHOOSE x \in S : \A y \in S \ {x} : StrLess(x, y)
         IN <<m>> \o SortedStrs(S \ {m})

\* sorted(S) for a set S of (str, str) tuples
SortedPairs(S) ==
    IF S = {} THEN <<>>
    ELSE LET m == CHOOSE x \in S : \A y \in S \ {x} : PairLess(x, y)
         IN <<m>> \o SortedPairs(S \ {m})

Range(s) == {s[i] : i \in 1..Len(s)}

Min(a, b) == IF a < b THEN a ELSE b

ModelIdsOf(ms) == {m.model_id : m \in ms}
TaskPathsOf(ts) == {ts[i].path : i \in 1..Len(ts)}

(***************************************************************************)
(* missing_combos.py: get_missing_combinations                             *)
(***************************************************************************)
\* line 52 without the status test
successful_runs_all(rs) == rs

\* line 52: [run for run in runs if run.status == "Success"]
successful_runs(rs) == SelectSeq(rs, LAMBDA run : run.status = "Success")

\* lines 56-59
existing_combinations(rs) ==
    {<<run.model.model_id, run.task.path>> : run \in Range(successful_runs(rs))}

\* line 62
active_models(rs) == {run.model.model_id : run \in Range(successful_runs(rs))}

\* lines 67-70 with the two arguments of product() exchanged
all_combinations_swapped(rs, ts) ==
    {<<t.path, m>> : t \in Range(ts), m \in active_models(rs)}

\* lines 67-70: set(product(active_models, [task.path for task in tasks]))
all_combinations(rs, ts) ==
    {<<m, t.path>> : m \in active_models(rs), t \in Range(ts)}

\* lines 43-75; the models argument is never read
get_missing_combinations(rs, ms, ts) ==
    all_combinations(rs, ts) \ existing_combinations(rs)

(***************************************************************************)
(* missing_combos.py: print_missing_combinations                           *)
(***************************************************************************)
\* `if model_filter:` / `if task_filter:`: None and "" are both falsy
Truthy(opt) == opt /= None /\ opt[1] /= <<>>

\* lines 82-86 without the .lower() on model_id
filter_by_model_cased(combos, model_filter) ==
    IF Truthy(model_filter)
    THEN {c \in combos : StrIn(Lower(model_filter[1]), c[1])}
    ELSE combos

\* lines 82-86
filter_by_model(combos, model_filter) ==
    IF Truthy(model_filter)
    THEN {c \in combos : StrIn(Lower(model_filter[1]), Lower(c[1]))}
    ELSE combos

\* lines 88-92
filter_by_task(combos, task_filter) ==
    IF Truthy(task_filter)
    THEN {c \in combos : StrIn(Lower(task_filter[1]), Lower(c[2]))}
    ELSE combos

\* lines 79-92
filtered_combinations(combos, model_filter, task_filter) ==
    filter_by_task(filter_by_model(combos, model_filter), task_filter)

\* task_lookup.get(task_path), lines 135-136: task.name if task and task.name else task_path
task_name(ts, task_path) ==
    LET found == {t \in Range(ts) : t.path = task_path}
    IN IF found /= {} /\ (CHOOSE t \in found : TRUE).name /= None
       THEN (CHOOSE t \in found : TRUE).name[1]
       ELSE task_path

\* lines 99-125: one header and one table per model, sorted(grouped.items())
print_grouped_by_model(fc) ==
    LET keys == SortedStrs({c[1] : c \in fc})
    IN [i \in 1..Len(keys) |->
          [kind |-> "model", key |-> keys[i],
           rows |-> SortedStrs({c[2] : c \in {d \in fc : d[1] = keys[i]}})]]

\* lines 127-147: one header and one table per task, sorted(grouped.items())
print_grouped_by_task(fc, ts) ==
    LET keys == SortedStrs({c[2] : c \in fc})
    IN [i \in 1..Len(keys) |->
          [kind |-> "task", key |-> keys[i], name |-> task_name(ts, keys[i]),
           rows |-> SortedStrs({c[1] : c \in {d \in fc : d[2] = keys[i]}})]]

\* lines 149-159: one flat table and the total
print_flat(fc) ==
    <<[kind |-> "table", rows |-> SortedPairs(fc)],
      [kind |-> "total", n |-> Cardinality(fc)]>>

\* lines 77-159: everything the function prints
print_missing_combinations(combos, ts, group_by, model_filter, task_filter) ==
    LET fc == filtered_combinations(combos, model_filter, task_filter)
    IN IF fc = {} THEN <<[kind |-> "none_found"]>>
       ELSE IF group_by = Some("model") THEN print_grouped_by_model(fc)
       ELSE IF group_by = Some("task") THEN print_grouped_by_task(fc, ts)
       ELSE print_flat(fc)

(***************************************************************************)
(* The snapshots and arguments the scripts are run on.                     *)
(***************************************************************************)
\* model ids "B", "a", "ab"; release dates as day numbers
ModelPool ==
    { [model_id |-> <<66>>, release_date |-> Some(2)],
      [model_id |-> <<97>>, release_date |-> Some(1)],
      [model_id |-> <<97, 98>>, release_date |-> None] }

\* task paths "x" and "X.y"
TaskPool ==
    { [path |-> <<120>>, name |-> None],
      [path |-> <<88, 46, 121>>, name |-> Some(<<89>>)] }

\* sequences over S without repetition
DistinctSeqs(S) ==
    UNION { {s \in [1..n -> S] : \A i, j \in 1..n : i /= j => s[i] /= s[j]} :
            n \in 0..Cardinality(S) }

SeqsUpTo(S, n) == UNION { [1..k -> S] : k \in 0..n }

RunPool(ms, ts) ==
    [model : ms, task : Range(ts), status : {"Success", "Failed"}]

\* --group-by, --model-filter "", "A", "b", --task-filter "x", "Y"
GroupByArgs == {None, Some("model"), Some("task")}
ModelFilterArgs == {None, Some(<<>>), Some(<<65>>), Some(<<98>>)}
TaskFilterArgs == {None, Some(<<120>>), Some(<<89>>)}

NoCall == [op |-> "none"]
NoLocals == [op |-> "none"]

(***************************************************************************)
(* missing_combos.py: print_summary                                        *)
(***************************************************************************)
\* lines 193 and 199: the slice bound of [:5]
Top5 == 5

\* Python's a / b on numbers: the quotient, or a ZeroDivisionError when b is 0
TrueDiv(a, b) ==
    [raised |-> IF b = 0 THEN "ZeroDivisionError" ELSE "", num |-> a, den |-> b]

\* f"{q * 100:.2f}" for a quotient q >= 0: hundredths of a percent, rounded
Percent2f(q) == (2 * 10000 * q.num + q.den) \div (2 * q.den)

\* line 173 without the `if all_possible_combinations > 0 else 0`
completion_percentage_unguarded(existing, all_possible) ==
    TrueDiv(existing, all_possible)

\* line 173: the quotient when all_possible_combinations > 0, else the number 0
completion_percentage(existing, all_possible) ==
    IF all_possible > 0 THEN TrueDiv(existing, all_possible) ELSE TrueDiv(0, 1)

\* lines 184-189: how many pairs of combos have the key at place k (1 or 2)
missing_count(combos, k) ==
    [key \in {c[k] : c \in combos} |-> Cardinality({c \in combos : c[k] = key})]

\* lines 193 and 199: the orders sorted(count.items(), key=count, reverse=True)
\* can give: counts descending, keys of equal count in the order the set
\* missing_combinations happened to be iterated in
CountOrders(cnt) ==
    {s \in [1..Cardinality(DOMAIN cnt) -> DOMAIN cnt] :
        /\ \A i, j \in 1..Len(s) : i /= j => s[i] /= s[j]
        /\ \A i, j \in 1..Len(s) : i < j => cnt[s[i]] >= cnt[s[j]]}

\* [:5]
top5(s) == SubSeq(s, 1, IF Len(s) < Top5 THEN Len(s) ELSE Top5)

\* lines 193-195 and 199-203: one line per key, with the quotient of its percentage
summary_lines(kind, order, cnt, total) ==
    [i \in 1..Len(top5(order)) |->
        [kind |-> kind, key |-> order[i], count |-> cnt[order[i]], total |-> total,
         completion |-> TrueDiv(total - cnt[order[i]], total)]]

\* the lines printed before the first one whose percentage raised
printed_lines(lines) ==
    SubSeq(lines, 1,
           Cardinality({i \in 1..Len(lines) :
                          \A j \in 1..i : lines[j].completion.raised = ""}))

raised_in(lines) ==
    IF \E i \in 1..Len(lines) : lines[i].completion.raised /= ""
    THEN "ZeroDivisionError" ELSE ""

\* lines 161-203: the locals at return (or at the raise) and everything
\* printed; model_order and task_order are the two sorted() results
print_summary(combos, ms, ts, model_order, task_order) ==
    LET total_models == Cardinality(ModelIdsOf(ms))
        total_tasks == Cardinality(TaskPathsOf(ts))
        all_possible == total_models * total_tasks
        existing == all_possible - Cardinality(combos)
        overall == completion_percentage(existing, all_possible)
        model_lines == summary_lines("model_line", model_order,
                                     missing_count(combos, 1), total_tasks)
        task_lines == summary_lines("task_line", task_order,
                                    missing_count(combos, 2), total_models)
        loc == [op |-> "summary", total_models |-> total_models,
                total_tasks |-> total_tasks, all_possible |-> all_possible,
                completion_percentage |-> overall,
                model_lines |-> model_lines, task_lines |-> task_lines]
        stats == <<[kind |-> "summary", total_models |-> total_models,
                    total_tasks |-> total_tasks, possible |-> all_possible,
                    missing |-> Cardinality(combos),
                    percent |-> IF overall.raised = "" THEN Some(Percent2f(overall))
                                ELSE None],
                   [kind |-> "top_models"]>>
    IN IF overall.raised /= ""
       THEN [locals |-> [loc EXCEPT !.model_lines = <<>>, !.task_lines = <<>>],
             raised |-> overall.raised, console |-> <<>>]
       ELSE IF raised_in(model_lines) /= ""
       THEN [locals |-> [loc EXCEPT !.task_lines = <<>>],
             raised |-> raised_in(model_lines),
             console |-> stats \o printed_lines(model_lines)]
       ELSE [locals |-> loc, raised |-> raised_in(task_lines),
             console |-> stats \o model_lines \o <<[kind |-> "top_tasks"]>>
                         \o printed_lines(task_lines)]

(***************************************************************************)
(* missing_combos.py main(): fetch, get_missing_combinations, print        *)
(***************************************************************************)
InitMissing ==
    /\ models \in SUBSET ModelPool
    /\ tasks \in DistinctSeqs(TaskPool)
    /\ runs \in SeqsUpTo(RunPool(models, tasks), MaxRuns)
    /\ scores = <<>>
    /\ pc = "fetched"
    /\ call = NoCall
    /\ missing_combinations = {}
    /\ locals = NoLocals
    /\ console = <<>>

\* line 220
GetMissing ==
    /\ pc = "fetched"
    /\ missing_combinations' = get_missing_combinations(runs, models, tasks)
    /\ pc' = "computed"
    /\ UNCHANGED <<models, tasks, runs, scores, call, locals, console>>

\* lines 223-224: print_summary, when --summary is given; an exception ends main()
PrintSummary ==
    /\ pc = "computed"
    /\ \E model_order \in CountOrders(missing_count(missing_combinations, 1)),
          task_order \in CountOrders(missing_count(missing_combinations, 2)) :
          LET r == print_summary(missing_combinations, models, tasks,
                                 model_order, task_order)
          IN /\ call' = [op |-> "print_summary", raised |-> r.raised]
             /\ locals' = r.locals
             /\ console' = r.console
             /\ pc' = IF r.raised = "" THEN "summarised" ELSE "aborted"
    /\ UNCHANGED <<models, tasks, runs, scores, missing_combinations>>

\* lines 227-234
PrintMissing ==
    /\ pc \in {"computed", "summarised"}
    /\ \E g \in GroupByArgs, mf \in ModelFilterArgs, tf \in TaskFilterArgs :
          /\ call' = [op |-> "print_missing_combinations",
                      group_by |-> g, model_filter |-> mf, task_filter |-> tf]
          /\ console' = print_missing_combinations(missing_combinations, tasks, g, mf, tf)
    /\ pc' = "done"
    /\ UNCHANGED <<models, tasks, runs, scores, missing_combinations, locals>>

NextMissing == GetMissing \/ PrintSummary \/ PrintMissing

SpecMissing == InitMissing /\ [][NextMissing]_vars

(***************************************************************************)
(* Rendering of numbers and dates in table cells.                          *)
(***************************************************************************)
\* f"{x:.3f}": x, in ten-thousandths, rounded to thousandths (ties to even)
Fmt3(x) ==
    LET a == IF x < 0 THEN 0 - x ELSE x
        q == a \div 10
        r == a % 10
        up == r > 5 \/ (r = 5 /\ q % 2 = 1)
        n == IF up THEN q + 1 ELSE q
    IN IF x < 0 THEN 0 - n ELSE n

\* release_date.strftime("%Y-%m-%d"): the calendar day, as text
Strftime(d) == [ymd |-> d]

\* the cell text "N/A"
NA == [text |-> "N/A"]

(***************************************************************************)
(* airtable.py: print_performance_timeline                                 *)
(***************************************************************************)
RECURSIVE sorted_by_release_date(_)
RECURSIVE scan_improvements(_, _, _)

\* lines 104-108 (and 70-73): the scores of the task and scorer, in input order
task_scores(ss, task_path, scorer) ==
    SelectSeq(ss, LAMBDA score :
        score.benchmark_run.task.path = task_path /\ score.scorer = scorer)

\* truth value of s.benchmark_run.model.release_date: only None is falsy
has_release_date(s) == s.benchmark_run.model.release_date /= None

\* line 115 reading the unfiltered scores instead of task_scores
scores_without_dates_of_all(ts, ss) ==
    SelectSeq(ss, LAMBDA s : ~has_release_date(s))

\* line 115; ss is the whole score collection, which the line does not read
scores_without_dates(ts, ss) == SelectSeq(ts, LAMBDA s : ~has_release_date(s))

\* line 116
dated_scores(ts) == SelectSeq(ts, has_release_date)

\* line 122
excluded_models(swd) ==
    {swd[i].benchmark_run.model.model_id : i \in 1..Len(swd)}

\* the sort key of lines 130-133
release_date_key(s) == s.benchmark_run.model.release_date[1]

\* one insertion of a stable sort: s goes after every element whose key is <= its own
InsertByDate(srt, s) ==
    LET n == Cardinality({i \in 1..Len(srt) :
                            release_date_key(srt[i]) <= release_date_key(s)})
    IN SubSeq(srt, 1, n) \o <<s>> \o SubSeq(srt, n + 1, Len(srt))

\* lines 130-133: sorted(dated_scores, key=release date), stable
sorted_by_release_date(ds) ==
    IF ds = <<>> THEN <<>>
    ELSE InsertByDate(sorted_by_release_date(SubSeq(ds, 1, Len(ds) - 1)), ds[Len(ds)])

NegInf == None

\* line 136 starting from 0 instead of -inf
initial_best_score_zero == Some(0)

\* line 136: float('-inf')
initial_best_score == NegInf

\* line 140 with >= in place of >
improves_or_ties(mean, best_score) == best_score = NegInf \/ mean >= best_score[1]

\* line 140: score.mean > best_score
improves(mean, best_score) == best_score = NegInf \/ mean > best_score[1]

\* lines 142-147
improvement(score) ==
    [date |-> score.benchmark_run.model.release_date,
     model |-> score.benchmark_run.model.model_id,
     score |-> score.mean,
     stderr |-> score.stderr]

\* lines 139-147: the loop, from element 1 of ds with the given best_score
scan_improvements(ds, best_score, improvements) ==
    IF ds = <<>> THEN [best_score |-> best_score, improvements |-> improvements]
    ELSE IF improves(ds[1].mean, best_score)
         THEN scan_improvements(Tail(ds), Some(ds[1].mean),
                                Append(improvements, improvement(ds[1])))
         ELSE scan_improvements(Tail(ds), best_score, improvements)

\* lines 160-166: one table row per improvement
timeline_row(imp) ==
    <<Strftime(imp.date[1]), imp.model, Fmt3(imp.score), Fmt3(imp.stderr)>>

\* lines 100-168: the locals at return and everything printed.
\* start_date and end_date are accepted and never read.
print_performance_timeline(task_path, ss, scorer) ==
    LET ts == task_scores(ss, task_path, scorer)
        swd == scores_without_dates(ts, ss)
        ds == dated_scores(ts)
        warning == IF swd /= <<>>
                   THEN <<[kind |-> "warning", count |-> Len(swd)],
                          [kind |-> "excluded", models |-> excluded_models(swd)]>>
                   ELSE <<>>
        srt == sorted_by_release_date(ds)
        scan == scan_improvements(srt, initial_best_score, <<>>)
    IN IF ts = <<>>
       THEN [locals |-> [op |-> "timeline", task_scores |-> ts, dated_scores |-> <<>>,
                         best_score |-> NegInf, improvements |-> <<>>],
             console |-> <<[kind |-> "no_scores"]>>]
       ELSE IF ds = <<>>
       THEN [locals |-> [op |-> "timeline", task_scores |-> ts, dated_scores |-> ds,
                         best_score |-> NegInf, improvements |-> <<>>],
             console |-> warning \o <<[kind |-> "no_dates"]>>]
       ELSE [locals |-> [op |-> "timeline", task_scores |-> ts, dated_scores |-> srt,
                         best_score |-> scan.best_score,
                         improvements |-> scan.improvements],
             console |-> warning \o
                <<[kind |-> "table",
                   rows |-> [i \in 1..Len(scan.improvements) |->
                               timeline_row(scan.improvements[i])]]>>]

(***************************************************************************)
(* airtable.py main(): the scores fetched, then print_performance_timeline *)
(***************************************************************************)
\* the models of ModelPool and "b", released the same day as "B"
TimelineModels ==
    ModelPool \cup {[model_id |-> <<98>>, release_date |-> Some(2)]}

TaskX == [path |-> <<120>>, name |-> None]
TaskXy == [path |-> <<88, 46, 121>>, name |-> Some(<<89>>)]
ModelB == [model_id |-> <<66>>, release_date |-> Some(2)]
ModelA == [model_id |-> <<97>>, release_date |-> Some(1)]
ModelAb == [model_id |-> <<97, 98>>, release_date |-> None]
ModelLowB == [model_id |-> <<98>>, release_date |-> Some(2)]

Scorers == {"choice", "model_graded_equiv"}

Score(m, t, scorer, mean) ==
    [benchmark_run |-> [model |-> m, task |-> t],
     scorer |-> scorer, mean |-> mean, stderr |-> 104]

\* means 0, 0.4996, 0.5004 on ("x", "choice"); 0.7 on another task, and on
\* another scorer for the model without a release date
TimelineScorePool ==
    {Score(m, TaskX, "choice", mean) : m \in ModelPool, mean \in {0, 4996, 5004}}
    \cup {Score(ModelLowB, TaskX, "choice", 5004),
          Score(ModelA, TaskXy, "choice", 7000),
          Score(ModelAb, TaskX, "model_graded_equiv", 7000)}

InitTimeline ==
    /\ models = TimelineModels
    /\ tasks = <<TaskX, TaskXy>>
    /\ runs = <<>>
    /\ scores \in SeqsUpTo(TimelineScorePool, MaxTimelineScores)
    /\ pc = "fetched"
    /\ call = NoCall
    /\ missing_combinations = {}
    /\ locals = NoLocals
    /\ console = <<>>

\* line 182
PrintTimeline ==
    /\ pc = "fetched"
    /\ \E task_path \in TaskPathsOf(tasks), scorer \in Scorers :
          LET r == print_performance_timeline(task_path, scores, scorer)
          IN /\ call' = [op |-> "print_performance_timeline",
                         task_path |-> task_path, scorer |-> scorer]
             /\ locals' = r.locals
             /\ console' = r.console
    /\ pc' = "done"
    /\ UNCHANGED <<models, tasks, runs, scores, missing_combinations>>

NextTimeline == PrintTimeline

SpecTimeline == InitTimeline /\ [][NextTimeline]_vars

(***************************************************************************)
(* airtable.py: print_high_scores                                          *)
(***************************************************************************)
RECURSIVE sorted_by_mean_reversed(_)
RECURSIVE sorted_by_mean_ascending(_)

\* line 76: the slice bound of [:10]
TopN == 10

\* lines 66-68: Task.first(formula=path='...') on the task table
task_found(ts, task_path) == \E t \in Range(ts) : t.path = task_path

\* one insertion of the stable descending sort: s goes after every element
\* whose mean is >= its own
InsertByMeanReversed(srt, s) ==
    LET n == Cardinality({i \in 1..Len(srt) : srt[i].mean >= s.mean})
    IN SubSeq(srt, 1, n) \o <<s>> \o SubSeq(srt, n + 1, Len(srt))

\* line 76 without reverse=True
sorted_by_mean_ascending(ss) ==
    IF ss = <<>> THEN <<>>
    ELSE LET srt == sorted_by_mean_ascending(SubSeq(ss, 1, Len(ss) - 1))
             s == ss[Len(ss)]
             n == Cardinality({i \in 1..Len(srt) : srt[i].mean <= s.mean})
         IN SubSeq(srt, 1, n) \o <<s>> \o SubSeq(srt, n + 1, Len(srt))

\* line 76: sorted(task_scores, key=lambda x: x.mean, reverse=True), stable
sorted_by_mean_reversed(ss) ==
    IF ss = <<>> THEN <<>>
    ELSE InsertByMeanReversed(sorted_by_mean_reversed(SubSeq(ss, 1, Len(ss) - 1)),
                              ss[Len(ss)])

\* line 76: [:10]
top_scores(ts) ==
    LET srt == sorted_by_mean_reversed(ts)
    IN SubSeq(srt, 1, IF Len(srt) < TopN THEN Len(srt) ELSE TopN)

\* lines 86-95
high_score_row(score) ==
    LET release_date == score.benchmark_run.model.release_date
    IN <<score.benchmark_run.model.model_id,
         IF release_date /= None THEN Strftime(release_date[1]) ELSE NA,
         Fmt3(score.mean), Fmt3(score.stderr)>>

\* lines 65-97: the locals at return (or at the raise) and everything printed
print_high_scores(task_path, ts, ss, scorer) ==
    IF ~task_found(ts, task_path)
    THEN [locals |-> [op |-> "high_scores", raised |-> "ValueError",
                      task_scores |-> <<>>, top_scores |-> <<>>],
          console |-> <<>>]
    ELSE LET top == top_scores(task_scores(ss, task_path, scorer))
         IN [locals |-> [op |-> "high_scores", raised |-> "",
                         task_scores |-> task_scores(ss, task_path, scorer),
                         top_scores |-> top],
             console |-> <<[kind |-> "table",
                            rows |-> [i \in 1..Len(top) |-> high_score_row(top[i])]]>>]

(***************************************************************************)
(* airtable.py main(): the scores fetched, then print_high_scores          *)
(***************************************************************************)
\* 0.4996 by "a" and 0.5004 by the undated "ab" on ("x", "choice"); 0.7 by "B"
\* on ("X.y", "model_graded_equiv")
RankScorePool ==
    {Score(ModelA, TaskX, "choice", 4996),
     Score(ModelAb, TaskX, "choice", 5004),
     Score(ModelB, TaskXy, "model_graded_equiv", 7000)}

\* the task paths asked for: "x", and "z", which is no task
RankTaskArgs == {<<120>>, <<122>>}

InitRank ==
    /\ models = ModelPool
    /\ tasks = <<TaskX, TaskXy>>
    /\ runs = <<>>
    /\ scores \in SeqsUpTo(RankScorePool, MaxRankScores)
    /\ pc = "fetched"
    /\ call = NoCall
    /\ missing_combinations = {}
    /\ locals = NoLocals
    /\ console = <<>>

\* lines 180-181
PrintHighScores ==
    /\ pc = "fetched"
    /\ \E task_path \in RankTaskArgs :
          LET r == print_high_scores(task_path, tasks, scores, "choice")
          IN /\ call' = [op |-> "print_high_scores",
                         task_path |-> task_path, scorer |-> "choice"]
             /\ locals' = r.locals
             /\ console' = r.console
    /\ pc' = "done"
    /\ UNCHANGED <<models, tasks, runs, scores, missing_combinations>>

NextRank == PrintHighScores

SpecRank == InitRank /\ [][NextRank]_vars

(***************************************************************************)
(* reasoning_models_analysis.py: print_model_comparison                    *)
(***************************************************************************)
RECURSIVE collect_model_scores(_, _, _, _)

\* line 53 keeping the first score of a (model, task) pair
store_first(model_scores, key, score) == model_scores @@ (key :> score)

\* line 53: model_scores[model_id][task_path] = score, the later score replaces
store(model_scores, key, score) == (key :> score) @@ model_scores

\* lines 49-53: the loop over scores; model_scores maps (model_id, task_path)
collect_model_scores(ss, cohort, task_scorers, model_scores) ==
    IF ss = <<>> THEN model_scores
    ELSE LET score == ss[1]
             model_id == score.benchmark_run.model.model_id
             task_path == score.benchmark_run.task.path
         IN IF /\ model_id \in {cohort[i].model_id : i \in 1..Len(cohort)}
               /\ task_path \in DOMAIN task_scorers
               /\ score.scorer = task_scorers[task_path]
            THEN collect_model_scores(Tail(ss), cohort, task_scorers,
                     store(model_scores, <<model_id, task_path>>, score))
            ELSE collect_model_scores(Tail(ss), cohort, task_scorers, model_scores)

\* line 67 with task_scorers.get(task.path)
scorer_lookup_get(task_scorers, path) ==
    IF path \in DOMAIN task_scorers
    THEN [ok |-> TRUE, scorer |-> Some(task_scorers[path])]
    ELSE [ok |-> TRUE, scorer |-> None]

\* line 67: task_scorers[task.path], a KeyError when the path is no key
scorer_lookup(task_scorers, path) ==
    IF path \in DOMAIN task_scorers
    THEN [ok |-> TRUE, scorer |-> Some(task_scorers[path])]
    ELSE [ok |-> FALSE, scorer |-> None]

\* line 68: the column header, task.name or task.path and the scorer
column(task, lookup) ==
    [title |-> IF task.name /= None /\ task.name[1] /= <<>>
               THEN task.name[1] ELSE task.path,
     scorer |-> lookup.scorer]

\* lines 80-88: the cells of one model
scores_for_tasks(model, ts, model_scores) ==
    [j \in 1..Len(ts) |->
        IF <<model.model_id, ts[j].path>> \in DOMAIN model_scores
        THEN [mean |-> Fmt3(model_scores[<<model.model_id, ts[j].path>>].mean),
              stderr |-> Fmt3(model_scores[<<model.model_id, ts[j].path>>].stderr)]
        ELSE NA]

\* lines 76-88: has_scores at the end of the loop over tasks
has_scores(model, ts, model_scores) ==
    \E j \in 1..Len(ts) : <<model.model_id, ts[j].path>> \in DOMAIN model_scores

\* line 91 without the test
row_added_always(model, ts, model_scores) == TRUE

\* line 91: if has_scores
row_added(model, ts, model_scores) == has_scores(model, ts, model_scores)

\* lines 72-73 and 92
table_row(model, ts, model_scores) ==
    <<model.model_id,
      IF model.release_date /= None THEN Strftime(model.release_date[1]) ELSE NA>>
    \o scores_for_tasks(model, ts, model_scores)

\* lines 36-95: the locals at return (or at the raise) and everything printed
print_model_comparison(cohort, ts, task_scorers, ss) ==
    LET model_scores == collect_model_scores(ss, cohort, task_scorers, <<>>)
        lookups == [j \in 1..Len(ts) |-> scorer_lookup(task_scorers, ts[j].path)]
        shown == SelectSeq(cohort, LAMBDA model : row_added(model, ts, model_scores))
    IN IF \E j \in 1..Len(ts) : ~lookups[j].ok
       THEN [locals |-> [op |-> "comparison", raised |-> "KeyError",
                         model_scores |-> model_scores],
             console |-> <<>>]
       ELSE [locals |-> [op |-> "comparison", raised |-> "",
                         model_scores |-> model_scores],
             console |->
               <<[kind |-> "table",
                  columns |-> [j \in 1..Len(ts) |-> column(ts[j], lookups[j])],
                  rows |-> [k \in 1..Len(shown) |->
                              table_row(shown[k], ts, model_scores)]]>>]

(***************************************************************************)
(* reasoning_models_analysis.py main(): a cohort, tasks and scorers chosen *)
(* by the caller, the scores fetched by print_model_comparison             *)
(***************************************************************************)
\* scores of "a" on both tasks, by "choice" (0.4996, 0.7) and by
\* "model_graded_equiv" (0.5004); two scores of "ab"
MatrixScorePool ==
    {Score(ModelA, t, "choice", mean) : t \in TaskPool, mean \in {4996, 7000}}
    \cup {Score(ModelA, t, "model_graded_equiv", 5004) : t \in TaskPool}
    \cup {Score(ModelAb, TaskX, "choice", 4996),
          Score(ModelAb, TaskXy, "model_graded_equiv", 5004)}

CohortArgs == DistinctSeqs({ModelA, ModelAb})
TaskListArgs == DistinctSeqs(TaskPool)

\* the scorer mappings: each of "x" and "X.y" absent or mapped to either scorer
TaskScorerArgs ==
    UNION { [D -> Scorers] : D \in SUBSET TaskPathsOf(<<TaskX, TaskXy>>) }

InitMatrix ==
    /\ models = ModelPool
    /\ tasks = <<TaskX, TaskXy>>
    /\ runs = <<>>
    /\ scores \in SeqsUpTo(MatrixScorePool, MaxMatrixScores)
    /\ pc = "fetched"
    /\ call = NoCall
    /\ missing_combinations = {}
    /\ locals = NoLocals
    /\ console = <<>>

\* lines 122-126
PrintModelComparison ==
    /\ pc = "fetched"
    /\ \E cohort \in CohortArgs, ts \in TaskListArgs, task_scorers \in TaskScorerArgs :
          LET r == print_model_comparison(cohort, ts, task_scorers, scores)
          IN /\ call' = [op |-> "print_model_comparison", models |-> cohort,
                         tasks |-> ts, task_scorers |-> task_scorers]
             /\ locals' = r.locals
             /\ console' = r.console
    /\ pc' = "done"
    /\ UNCHANGED <<models, tasks, runs, scores, missing_combinations>>

NextMatrix == PrintModelComparison

SpecMatrix == InitMatrix /\ [][NextMatrix]_vars

(***************************************************************************)
(* Claims about missing_combos.py, checked under SpecMissing.              *)
(***************************************************************************)
SuccessIdx == {i \in 1..Len(runs) : runs[i].status = "Success"}
HasSuccess(m, p) ==
    \E i \in SuccessIdx : runs[i].model.model_id = m /\ runs[i].task.path = p
ModelsWithSuccess == {runs[i].model.model_id : i \in SuccessIdx}

\* C1: get_missing_combinations returns exactly the pairs (model_id, task_path)
\* where model_id has a Success run, task_path is the path of a task of the task
\* collection and no Success run exists for the pair; the missing pairs and the
\* Success pairs partition active_models x task paths, so the two counts sum to
\* len(active_models) * len(tasks); runs of any other status neither make a
\* model active nor count as coverage.
C1_MissingIsExact ==
    pc /= "fetched" =>
        /\ \A c \in missing_combinations :
              /\ c[1] \in ModelsWithSuccess
              /\ c[2] \in TaskPathsOf(tasks)
              /\ ~HasSuccess(c[1], c[2])
        /\ \A m \in ModelsWithSuccess, p \in TaskPathsOf(tasks) :
              ~HasSuccess(m, p) => <<m, p>> \in missing_combinations
        /\ Cardinality(missing_combinations)
             + Cardinality({c \in ModelsWithSuccess \X TaskPathsOf(tasks) :
                              HasSuccess(c[1], c[2])})
             = Cardinality(ModelsWithSuccess) * Len(tasks)

\* C1 witness: a result with a missing pair and a covered pair, computed from
\* runs among which a model has only a non-Success run
C1_Witness ==
    /\ pc = "computed"
    /\ missing_combinations /= {}
    /\ \E i \in 1..Len(runs) :
          /\ runs[i].status /= "Success"
          /\ runs[i].model.model_id \notin ModelsWithSuccess
    /\ \E m \in ModelsWithSuccess, p \in TaskPathsOf(tasks) : HasSuccess(m, p)

MatchesIgnoringCase(f, s) ==
    \/ f = None
    \/ \E off \in 0..(Len(s) - Len(f[1])) :
          \A k \in 1..Len(f[1]) : LowerChar(s[off + k]) = LowerChar(f[1][k])

ExpectedPairs ==
    {c \in missing_combinations :
        /\ MatchesIgnoringCase(call.model_filter, c[1])
        /\ MatchesIgnoringCase(call.task_filter, c[2])}

Ascending(rows, less(_, _)) ==
    \A i, j \in 1..Len(rows) : i < j => less(rows[i], rows[j])

\* the places (group, row) of a grouped output
ShownAt ==
    {<<i, j>> \in (1..Len(console)) \X (1..Cardinality(missing_combinations)) :
        j <= Len(console[i].rows)}

\* C10: print_missing_combinations outputs exactly the missing pairs matching
\* the given filters as case-insensitive substrings (both when both are given),
\* each once: grouped, the groups come in ascending key order with ascending
\* entries; ungrouped, one flat ascending list.
C10_PrintedPairs ==
    pc = "done" =>
        IF ExpectedPairs = {} THEN console = <<[kind |-> "none_found"]>>
        ELSE IF call.group_by = Some("model") THEN
            /\ \A i \in 1..Len(console) : console[i].kind = "model"
            /\ Ascending([i \in 1..Len(console) |-> console[i].key], StrLess)
            /\ \A i \in 1..Len(console) : Ascending(console[i].rows, StrLess)
            /\ {<<console[p[1]].key, console[p[1]].rows[p[2]]>> : p \in ShownAt}
                 = ExpectedPairs
        ELSE IF call.group_by = Some("task") THEN
            /\ \A i \in 1..Len(console) : console[i].kind = "task"
            /\ Ascending([i \in 1..Len(console) |-> console[i].key], StrLess)
            /\ \A i \in 1..Len(console) : Ascending(console[i].rows, StrLess)
            /\ {<<console[p[1]].rows[p[2]], console[p[1]].key>> : p \in ShownAt}
                 = ExpectedPairs
        ELSE
            /\ console[1].kind = "table"
            /\ Ascending(console[1].rows, PairLess)
            /\ Range(console[1].rows) = ExpectedPairs
            /\ console[2] = [kind |-> "total", n |-> Cardinality(ExpectedPairs)]

\* C10 witness: grouped by task with both filters given, each of which removed
\* a pair or matched only because case is ignored
C10_Witness ==
    /\ pc = "done"
    /\ call.group_by = Some("task")
    /\ Truthy(call.model_filter) /\ Truthy(call.task_filter)
    /\ ExpectedPairs /= {}
    /\ \E c \in ExpectedPairs : ~StrIn(call.task_filter[1], c[2])
    /\ \E c \in missing_combinations \ ExpectedPairs :
          MatchesIgnoringCase(call.task_filter, c[2])

SummaryRan == locals.op = "summary"

SummaryLines == locals.model_lines \o locals.task_lines

C11_LinesWitness ==
    /\ pc = "summarised"
    /\ Len(locals.model_lines) >= 2
    /\ Len(locals.task_lines) >= 2

(***************************************************************************)
(* Claims about print_performance_timeline, checked under SpecTimeline.    *)
(***************************************************************************)
TimelineDone == pc = "done" /\ call.op = "print_performance_timeline"

\* positions in the score collection of the scores of the requested task and scorer
MatchingIdx ==
    {i \in 1..Len(scores) :
        /\ scores[i].benchmark_run.task.path = call.task_path
        /\ scores[i].scorer = call.scorer}
DatedIdx ==
    {i \in MatchingIdx : scores[i].benchmark_run.model.release_date /= None}
UndatedIdx == MatchingIdx \ DatedIdx

DateOf(s) == s.benchmark_run.model.release_date[1]
MaxDatedMean ==
    CHOOSE v \in {scores[i].mean : i \in DatedIdx} :
        \A i \in DatedIdx : scores[i].mean <= v

\* d holds the matching dated scores, each as often as the collection does,
\* in ascending order of release date
IsDatedSorted(d) ==
    /\ Len(d) = Cardinality(DatedIdx)
    /\ \A i \in DatedIdx :
          Cardinality({k \in 1..Len(d) : d[k] = scores[i]})
            = Cardinality({j \in DatedIdx : scores[j] = scores[i]})
    /\ \A i, j \in 1..Len(d) : i < j => DateOf(d[i]) <= DateOf(d[j])

\* positions of d whose mean strictly exceeds the mean of every earlier position
RecordIdx(d) == {k \in 1..Len(d) : \A j \in 1..(k - 1) : d[j].mean < d[k].mean}

EntryOf(s) ==
    [date |-> s.benchmark_run.model.release_date,
     model |-> s.benchmark_run.model.model_id,
     score |-> s.mean, stderr |-> s.stderr]

\* C3: the timeline holds exactly the scores, of the matching dated scores
\* sorted ascending by release date, whose mean strictly exceeds the mean of
\* every earlier one, in that order; the first sorted score is an entry, a score
\* equal to the running maximum is not, and the last entry's mean is the
\* maximum mean of the matching dated scores.
C3_TimelineIsRecords ==
    TimelineDone =>
        LET d == locals.dated_scores
            imps == locals.improvements
        IN IF DatedIdx = {} THEN imps = <<>>
           ELSE /\ IsDatedSorted(d)
                /\ Len(imps) = Cardinality(RecordIdx(d))
                /\ \A k \in RecordIdx(d) :
                      imps[Cardinality({j \in RecordIdx(d) : j <= k})] = EntryOf(d[k])
                /\ imps[1] = EntryOf(d[1])
                /\ imps[Len(imps)].score = MaxDatedMean
                /\ console[Len(console)].kind = "table"
                /\ Len(console[Len(console)].rows) = Len(imps)

\* C3 witness: the sort reordered the dated scores, the first sorted score has
\* mean 0, a later score tied with the running maximum and made no entry, and a
\* still later one made an entry
C3_Witness ==
    /\ TimelineDone
    /\ DatedIdx /= {}
    /\ locals.dated_scores /= dated_scores(locals.task_scores)
    /\ locals.dated_scores[1].mean = 0
    /\ \E k \in 2..Len(locals.dated_scores) :
          /\ k \notin RecordIdx(locals.dated_scores)
          /\ \E j \in 1..(k - 1) :
                locals.dated_scores[j].mean = locals.dated_scores[k].mean
          /\ \E n \in RecordIdx(locals.dated_scores) : n > k

\* C4: consecutive timeline entries have strictly increasing means and
\* non-decreasing dates.
C4_TimelineMonotone ==
    TimelineDone =>
        \A i \in 1..(Len(locals.improvements) - 1) :
            /\ locals.improvements[i].score < locals.improvements[i + 1].score
            /\ locals.improvements[i].date[1] <= locals.improvements[i + 1].date[1]

\* C4 witness: three entries, two of them of the same date, out of scores that
\* were not fetched in date order
C4_Witness ==
    /\ TimelineDone
    /\ Len(locals.improvements) = 3
    /\ locals.improvements[2].date = locals.improvements[3].date
    /\ locals.dated_scores /= dated_scores(locals.task_scores)

\* the score collection without the matching scores of undated models
WithoutUndated ==
    SelectSeq(scores, LAMBDA s :
        ~(/\ s.benchmark_run.task.path = call.task_path
          /\ s.scorer = call.scorer
          /\ s.benchmark_run.model.release_date = None))

ConsoleKinds == {console[i].kind : i \in 1..Len(console)}

\* C5: a matching score of a model without release date is no timeline entry
\* and does not affect the running maximum; when such scores exist, the
\* warning lists the deduplicated model ids of exactly their models; when all
\* matching scores are undated the timeline is empty.
C5_UndatedExcluded ==
    TimelineDone =>
        /\ \A k \in 1..Len(locals.improvements) :
              /\ locals.improvements[k].date /= None
              /\ \A i \in UndatedIdx :
                    locals.improvements[k].model
                      /= scores[i].benchmark_run.model.model_id
        /\ locals.best_score
             = IF DatedIdx = {} THEN NegInf ELSE Some(MaxDatedMean)
        /\ locals.improvements
             = print_performance_timeline(call.task_path, WithoutUndated,
                                          call.scorer).locals.improvements
        /\ IF UndatedIdx /= {}
           THEN /\ console[1] = [kind |-> "warning", count |-> Cardinality(UndatedIdx)]
                /\ console[2] =
                     [kind |-> "excluded",
                      models |-> {scores[i].benchmark_run.model.model_id :
                                    i \in UndatedIdx}]
           ELSE ConsoleKinds \cap {"warning", "excluded"} = {}
        /\ (UndatedIdx /= {} /\ DatedIdx = {}) =>
              /\ locals.improvements = <<>>
              /\ console[3] = [kind |-> "no_dates"]
              /\ "table" \notin ConsoleKinds

\* C5 witness: a timeline with entries although an undated matching score has
\* a mean above every dated one, and an undated score of another scorer exists
C5_Witness ==
    /\ TimelineDone
    /\ locals.improvements /= <<>>
    /\ \E i \in UndatedIdx : scores[i].mean > MaxDatedMean
    /\ \E i \in 1..Len(scores) :
          /\ i \notin MatchingIdx
          /\ scores[i].benchmark_run.model.release_date = None

(***************************************************************************)
(* Claims about print_high_scores, checked under SpecRank.                 *)
(***************************************************************************)
RankDone == pc = "done" /\ call.op = "print_high_scores"

\* how often the score x occurs among the matching scores, and in the output
TimesMatching(x) == Cardinality({i \in MatchingIdx : scores[i] = x})
TimesIn(top, x) == Cardinality({k \in 1..Len(top) : top[k] = x})

\* the ranking invariant for a top-N count n
RankingInvariant(n) ==
    LET top == locals.top_scores
    IN /\ \A k \in 1..Len(top) :
             /\ top[k].benchmark_run.task.path = call.task_path
             /\ top[k].scorer = call.scorer
             /\ TimesIn(top, top[k]) <= TimesMatching(top[k])
       /\ Len(top) = Min(n, Cardinality(MatchingIdx))
       /\ \A i, j \in 1..Len(top) : i < j => top[i].mean >= top[j].mean
       /\ \A i \in MatchingIdx :
             TimesIn(top, scores[i]) < TimesMatching(scores[i]) =>
                 \A k \in 1..Len(top) : top[k].mean >= scores[i].mean
       /\ locals.raised = "" =>
             /\ console[1].kind = "table"
             /\ Len(console[1].rows) = Len(top)

\* C6, as the code has it: the output of print_high_scores holds only scores of
\* the task and scorer, min(10, number of matching scores) of them, sorted
\* descending by mean, each with a mean >= that of every matching score left
\* out, without deduplication per model and without regard to release dates;
\* the count is the fixed 10 of the slice, not an argument.
C6_RankingTop10 == RankDone => RankingInvariant(TopN)

\* C6 witness: more than 10 matching scores, so that some are left out, of two
\* different means, one of them of a model without release date
C6_Witness ==
    /\ RankDone
    /\ Cardinality(MatchingIdx) > TopN
    /\ \E k \in 1..Len(locals.top_scores) :
          locals.top_scores[k].benchmark_run.model.release_date = None
    /\ locals.top_scores[1].mean > locals.top_scores[Len(locals.top_scores)].mean

\* C6 as claimed: the ranking invariant for every top-N count N up to the
\* default 10.
C6_RankingEveryTopN == RankDone => \A n \in 1..TopN : RankingInvariant(n)

(***************************************************************************)
(* Claims about print_model_comparison, checked under SpecMatrix.          *)
(***************************************************************************)
MatrixDone == pc = "done" /\ call.op = "print_model_comparison"

\* every task of the task list has an entry in the scorer mapping
MappingCovers ==
    \A j \in 1..Len(call.tasks) : call.tasks[j].path \in DOMAIN call.task_scorers

\* positions of the scores of the model on the task path that carry the scorer
\* configured for that path
QualifyingIdx(model_id, path) ==
    {i \in 1..Len(scores) :
        /\ scores[i].benchmark_run.model.model_id = model_id
        /\ scores[i].benchmark_run.task.path = path
        /\ path \in DOMAIN call.task_scorers
        /\ scores[i].scorer = call.task_scorers[path]}

\* the model has a qualifying score on a task of the task list
HasRequestedScore(model) ==
    \E j \in 1..Len(call.tasks) : QualifyingIdx(model.model_id, call.tasks[j].path) /= {}

LastOf(S) == CHOOSE i \in S : \A k \in S : k <= i

\* C7: when the scorer mapping covers the task list, the rows are, in cohort
\* order, the models of the cohort with at least one score on a requested task
\* by the scorer configured for it; a model without such a score has no row,
\* also when it has matching scores on a mapped task that is not requested.
C7_RowsAreScoredCohort ==
    (MatrixDone /\ MappingCovers) =>
        /\ Len(console) = 1 /\ console[1].kind = "table"
        /\ [k \in 1..Len(console[1].rows) |-> console[1].rows[k][1]]
             = [k \in 1..Len(SelectSeq(call.models, HasRequestedScore)) |->
                  SelectSeq(call.models, HasRequestedScore)[k].model_id]

\* C7 witness: a cohort of two whose second model has a row and whose first has
\* none, its only qualifying score being on a mapped task that is not requested
C7_Witness ==
    /\ MatrixDone /\ MappingCovers
    /\ Len(call.models) = 2
    /\ Len(console[1].rows) = 1
    /\ console[1].rows[1][1] = call.models[2].model_id
    /\ \E path \in DOMAIN call.task_scorers :
          /\ path \notin TaskPathsOf(call.tasks)
          /\ QualifyingIdx(call.models[1].model_id, path) /= {}

\* C8: the cell of a (model, task) pair shows the qualifying score that comes
\* last in the score collection, whatever scores of other scorers follow it,
\* and the no-data marker when no score qualifies.
C8_LastQualifyingWins ==
    (MatrixDone /\ MappingCovers) =>
        \A k \in 1..Len(console[1].rows), j \in 1..Len(call.tasks) :
            LET q == QualifyingIdx(console[1].rows[k][1], call.tasks[j].path)
                cell == console[1].rows[k][2 + j]
            IN /\ Len(console[1].rows[k]) = 2 + Len(call.tasks)
               /\ IF q = {} THEN cell = NA
                  ELSE /\ cell = [mean |-> Fmt3(scores[LastOf(q)].mean),
                                  stderr |-> Fmt3(scores[LastOf(q)].stderr)]
                       /\ locals.model_scores[<<console[1].rows[k][1],
                                                call.tasks[j].path>>]
                            = scores[LastOf(q)]

\* C8 witness: a pair with two qualifying scores that render differently,
\* followed by a score of another scorer for the same pair, in a row that also
\* has a no-data cell
C8_Witness ==
    /\ MatrixDone /\ MappingCovers
    /\ \E k \in 1..Len(console[1].rows), j \in 1..Len(call.tasks) :
          LET m == console[1].rows[k][1]
              q == QualifyingIdx(m, call.tasks[j].path)
          IN /\ \E a, b \in q : Fmt3(scores[a].mean) /= Fmt3(scores[b].mean)
             /\ \E i \in 1..Len(scores) :
                   /\ i > LastOf(q)
                   /\ scores[i].benchmark_run.model.model_id = m
                   /\ scores[i].benchmark_run.task.path = call.tasks[j].path
                   /\ scores[i].scorer /= call.task_scorers[call.tasks[j].path]
             /\ \E n \in 1..Len(call.tasks) : console[1].rows[k][2 + n] = NA

\* C9: when a task of the task list has no entry in the scorer mapping, the
\* call ends in a KeyError and prints nothing: no table, no row.
C9_UnmappedTaskAborts ==
    (MatrixDone /\ ~MappingCovers) =>
        /\ locals.raised = "KeyError"
        /\ console = <<>>

\* C9 witness: the unmapped task has no score at all, while a model of the
\* cohort has a qualifying score on another task of the list
C9_Witness ==
    /\ MatrixDone /\ ~MappingCovers
    /\ \E j \in 1..Len(call.tasks) :
          /\ call.tasks[j].path \notin DOMAIN call.task_scorers
          /\ \A i \in 1..Len(scores) :
                scores[i].benchmark_run.task.path /= call.tasks[j].path
    /\ \E k \in 1..Len(call.models) : HasRequestedScore(call.models[k])

====
